---- MODULE Spec2Model ----
(***************************************************************************)
(* Model of the Soul Space blog generator (src/app.py): the response       *)
(* parser parse_response, the formatter format_blog_post, the topic cache  *)
(* kept in the workflow's session_state and the run workflow.              *)
(*                                                                         *)
(* A Python str is a sequence of one-character strings; a Python list of   *)
(* str is a sequence of such sequences; a dict is a function whose domain  *)
(* is its key set.                                                         *)
(***************************************************************************)
EXTENDS Integers, Sequences, FiniteSets, TLC

(***************************************************************************)
(* String primitives of the Python runtime used by the code.               *)
(***************************************************************************)
NL == "\n"

\* str.strip() with no argument removes these from both ends
Whitespace == {" ", "\t", "\r", NL}

\* str.isdigit() on one character
Digits == {"0", "1", "2", "3", "4", "5", "6", "7", "8", "9"}

\* s.startswith(p)
StartsWith(s, p) ==
    /\ Len(s) >= Len(p)
    /\ SubSeq(s, 1, Len(p)) = p

\* s.lstrip(chars): drop the longest prefix made of characters of the set
RECURSIVE LStripChars(_, _)
LStripChars(s, chars) ==
    IF s # <<>> /\ s[1] \in chars THEN LStripChars(Tail(s), chars) ELSE s

\* s.rstrip(chars)
RECURSIVE RStripChars(_, _)
RStripChars(s, chars) ==
    IF s # <<>> /\ s[Len(s)] \in chars
    THEN RStripChars(SubSeq(s, 1, Len(s) - 1), chars)
    ELSE s

\* s.strip(chars)
StripChars(s, chars) == RStripChars(LStripChars(s, chars), chars)

\* s.replace(old, ""): every non-overlapping occurrence, left to right
RECURSIVE ReplaceAll(_, _)
ReplaceAll(s, old) ==
    IF s = <<>> THEN <<>>
    ELSE IF StartsWith(s, old)
         THEN ReplaceAll(SubSeq(s, Len(old) + 1, Len(s)), old)
         ELSE <<s[1]>> \o ReplaceAll(Tail(s), old)

\* s.split(sep) for a one-character sep: always at least one piece; the
\* k-th piece lies between the (k-1)-th and the k-th occurrence of sep
Split(s, sep) ==
    LET at == {i \in 1..Len(s) : s[i] = sep}
        pos(k) == CHOOSE i \in at : Cardinality({j \in at : j < i}) = k - 1
        n == Cardinality(at)
    IN  [k \in 1..(n + 1) |->
            SubSeq(s, IF k = 1 THEN 1 ELSE pos(k - 1) + 1,
                      IF k = n + 1 THEN Len(s) ELSE pos(k) - 1)]

\* sep.join(parts)
RECURSIVE Join(_, _)
Join(parts, sep) ==
    IF parts = <<>> THEN <<>>
    ELSE IF Len(parts) = 1 THEN parts[1]
         ELSE parts[1] \o <<sep>> \o Join(Tail(parts), sep)

\* str(n) for a natural number
RECURSIVE ToDecimal(_)
ToDecimal(n) ==
    LET d == <<"0", "1", "2", "3", "4", "5", "6", "7", "8", "9">>
    IN  IF n < 10 THEN <<d[n + 1]>>
        ELSE ToDecimal(n \div 10) \o <<d[(n % 10) + 1]>>

\* [f(x) for x in xs if keep(x)] over a sequence
RECURSIVE SelectNonEmpty(_)
SelectNonEmpty(xs) ==
    IF xs = <<>> THEN <<>>
    ELSE IF xs[1] # <<>>
         THEN <<xs[1]>> \o SelectNonEmpty(Tail(xs))
         ELSE SelectNonEmpty(Tail(xs))

(***************************************************************************)
(* The literal texts of the parser and the formatter.                      *)
(***************************************************************************)
TitleMarker ==
    <<"#","#"," ">>
PerspectivePrefix ==
    <<"#","#","#"," ","T","h","e"," ","S","o","u","l"," ","S","p","a","c","e"," ","P","e","r","s","p","e","c","t","i","v","e">>
SciencePrefix ==
    <<"#","#","#"," ","U","n","d","e","r","s","t","a","n","d","i","n","g"," ","t","h","e"," ","S","c","i","e","n","c","e">>
IntegrationPrefix ==
    <<"#","#","#"," ","T","r","a","d","i","t","i","o","n","a","l"," ","W","i","s","d","o","m">>
ApplicationsPrefix ==
    <<"#","#","#"," ","P","r","a","c","t","i","c","a","l"," ","A","p","p","l","i","c","a","t","i","o","n","s">>
TakeawaysPrefix ==
    <<"#","#","#"," ","K","e","y"," ","T","a","k","e","a","w","a","y","s">>
ReferencesPrefix ==
    <<"#","#","#"," ","S","c","i","e","n","t","i","f","i","c"," ","R","e","f","e","r","e","n","c","e","s">>
SignOffPrefix ==
    <<"N","a","m","a","s","t","e",",">>
IntegrationHeading ==
    <<"#","#","#"," ","T","r","a","d","i","t","i","o","n","a","l"," ","W","i","s","d","o","m"," ","M","e","e","t","s"," ","M","o","d","e","r","n"," ","R","e","s","e","a","r","c","h">>
SignatureName ==
    <<"J","e","n"," ","P","a","t","e","l">>
SignatureRole ==
    <<"F","o","u","n","d","e","r",","," ","S","o","u","l"," ","S","p","a","c","e">>
FailedPrefix ==
    <<"F","a","i","l","e","d"," ","t","o"," ","g","e","n","e","r","a","t","e"," ","b","l","o","g"," ","p","o","s","t"," ","a","b","o","u","t",":"," ">>
ErrorPrefix ==
    <<"E","r","r","o","r",":"," ">>
SessionPrefix ==
    <<"y","o","g","a","-","b","l","o","g","-">>

\* the characters of line.lstrip('- *0123456789. ')
ListMarkerChars == {"-", " ", "*", "."} \cup Digits

\* the characters of t.strip('- ')
ItemTrimChars == {"-", " "}

(***************************************************************************)
(* parse_response.  A value of the sections dict carries its Python type,  *)
(* because the code can store a str under a list key.                      *)
(***************************************************************************)
PyStr(s) == [type |-> "str", v |-> s]
PyList(l) == [type |-> "list", v |-> l]

TextSections == {"perspective", "science", "integration"}
ListSections == {"applications", "takeaways", "references"}
BodySections == TextSections \cup ListSections

\* the state at the top of the loop: sections, current_section, current_text
ParserInit ==
    [sections |-> [title        |-> PyStr(<<>>),
                   perspective  |-> PyStr(<<>>),
                   science      |-> PyStr(<<>>),
                   integration  |-> PyStr(<<>>),
                   applications |-> PyList(<<>>),
                   takeaways    |-> PyList(<<>>),
                   references   |-> PyList(<<>>)],
     current_section |-> "none",
     current_text    |-> <<>>]

\* [t.strip('- ') for t in current_text if t.strip('- ')]
TrimItems(current_text) ==
    SelectNonEmpty([i \in 1..Len(current_text) |->
                       StripChars(current_text[i], ItemTrimChars)])

\* the buffer kept across the heading: lines met before the first
\* sub-heading are stored under the section that heading opens
JoinTransition_KeepsPreamble(st, section) ==
    [sections |->
        IF st.current_text = <<>>
        THEN st.sections
        ELSE IF st.current_section # "none"
        THEN [st.sections EXCEPT
                 ![st.current_section] = PyStr(Join(st.current_text, NL))]
        ELSE [st.sections EXCEPT ![section] = PyStr(Join(st.current_text, NL))],
     current_section |-> section,
     current_text    |-> <<>>]

\* the four sub-headings that store '\n'.join(current_text) under the open key
JoinTransition(st, section) ==
    [sections |->
        IF st.current_section # "none" /\ st.current_text # <<>>
        THEN [st.sections EXCEPT
                 ![st.current_section] = PyStr(Join(st.current_text, NL))]
        ELSE st.sections,
     current_section |-> section,
     current_text    |-> <<>>]

\* '### Key Takeaways' and '### Scientific References': store the trimmed
\* list only when the open section is the one expected before them
ListTransition(st, expected, section) ==
    [sections |->
        IF st.current_section = expected
        THEN [st.sections EXCEPT ![expected] = PyList(TrimItems(st.current_text))]
        ELSE st.sections,
     current_section |-> section,
     current_text    |-> <<>>]

\* insert(0, ...) in place of append: the newest line comes first
Accumulate_Prepends(st, line) ==
    IF st.current_section \in ListSections
    THEN IF \/ StartsWith(line, <<"-", " ">>)
            \/ StartsWith(line, <<"*", " ">>)
            \/ line[1] \in Digits
         THEN [st EXCEPT !.current_text =
                  << LStripChars(line, ListMarkerChars) >> \o @]
         ELSE st
    ELSE [st EXCEPT !.current_text = << line >> \o @]

\* lstrip('- ') in place of the full marker set: only a dash is removed
Accumulate_StripsDashOnly(st, line) ==
    IF st.current_section \in ListSections
    THEN IF \/ StartsWith(line, <<"-", " ">>)
            \/ StartsWith(line, <<"*", " ">>)
            \/ line[1] \in Digits
         THEN [st EXCEPT !.current_text =
                  Append(@, LStripChars(line, ItemTrimChars))]
         ELSE st
    ELSE [st EXCEPT !.current_text = Append(@, line)]

\* a line that is no heading and no sign-off
Accumulate(st, line) ==
    IF st.current_section \in ListSections
    THEN IF \/ StartsWith(line, <<"-", " ">>)
            \/ StartsWith(line, <<"*", " ">>)
            \/ line[1] \in Digits
         THEN [st EXCEPT !.current_text =
                  Append(@, LStripChars(line, ListMarkerChars))]
         ELSE st
    ELSE [st EXCEPT !.current_text = Append(@, line)]

\* one iteration of the loop over content.split('\n')
ParseLine(st, raw) ==
    LET line == StripChars(raw, Whitespace)
    IN  IF line = <<>> THEN st
        ELSE IF StartsWith(line, TitleMarker)
        THEN [st EXCEPT !.sections.title = PyStr(ReplaceAll(line, TitleMarker))]
        ELSE IF StartsWith(line, PerspectivePrefix)
        THEN JoinTransition(st, "perspective")
        ELSE IF StartsWith(line, SciencePrefix)
        THEN JoinTransition(st, "science")
        ELSE IF StartsWith(line, IntegrationPrefix)
        THEN JoinTransition(st, "integration")
        ELSE IF StartsWith(line, ApplicationsPrefix)
        THEN JoinTransition(st, "applications")
        ELSE IF StartsWith(line, TakeawaysPrefix)
        THEN ListTransition(st, "applications", "takeaways")
        ELSE IF StartsWith(line, ReferencesPrefix)
        THEN ListTransition(st, "takeaways", "references")
        ELSE IF ~StartsWith(line, SignOffPrefix)
        THEN Accumulate(st, line)
        ELSE st

\* after the loop: the last section, of which only references is stored
HandleLastSection(st) ==
    IF st.current_section = "references" /\ st.current_text # <<>>
    THEN [st.sections EXCEPT
             !.references = PyList(SelectNonEmpty(st.current_text))]
    ELSE st.sections

\* v if v else ([] if k is a list key else '')
EnsureDefaults(sections) ==
    [k \in DOMAIN sections |->
        IF sections[k].v # <<>> THEN sections[k]
        ELSE IF k \in ListSections THEN PyList(<<>>) ELSE PyStr(<<>>)]

\* the pydantic model: four str fields and three List[str] fields
FieldType(k) == IF k \in ListSections THEN "list" ELSE "str"

\* YogaBlogPost(**sections) raises ValidationError when a value has not the
\* type of its field
Validates(sections) == \A k \in DOMAIN sections : sections[k].type = FieldType(k)

YogaBlogPost(sections) == [k \in DOMAIN sections |-> sections[k].v]

\* lines 125-133: the outcome of parse_response from the state after the loop
ParseOutcome(st) ==
    LET sections == EnsureDefaults(HandleLastSection(st))
    IN  IF Validates(sections)
        THEN [raised |-> FALSE, sections |-> sections,
              post |-> YogaBlogPost(sections)]
        ELSE [raised |-> TRUE, sections |-> sections, post |-> <<>>]

RECURSIVE ParseLoop(_, _)
ParseLoop(st, lines) ==
    IF lines = <<>> THEN st
    ELSE ParseLoop(ParseLine(st, Head(lines)), Tail(lines))

parse_response(content) == ParseOutcome(ParseLoop(ParserInit, Split(content, NL)))

(***************************************************************************)
(* format_blog_post                                                        *)
(***************************************************************************)
Bullets(items) == Join([i \in 1..Len(items) |-> <<"-", " ">> \o items[i]], NL)

Numbered(items) ==
    Join([i \in 1..Len(items) |-> ToDecimal(i) \o <<".", " ">> \o items[i]], NL)

format_blog_post(blog) ==
    Join(<< TitleMarker \o blog.title,
            <<>>,
            PerspectivePrefix,
            blog.perspective,
            <<>>,
            SciencePrefix,
            blog.science,
            <<>>,
            IntegrationHeading,
            blog.integration,
            <<>>,
            ApplicationsPrefix,
            Bullets(blog.applications),
            <<>>,
            TakeawaysPrefix,
            Bullets(blog.takeaways),
            <<>>,
            ReferencesPrefix,
            Numbered(blog.references),
            <<>>,
            SignOffPrefix,
            SignatureName,
            SignatureRole >>, NL)

(***************************************************************************)
(* State.  The p_ variables are one call of parse_response walked line by  *)
(* line (and, for a round trip, the format_blog_post call before it).      *)
(***************************************************************************)
VARIABLES
    p_pc,        \* "format", "split", "loop", "finish", "done" or "raised"
    p_mode,      \* "raw": free text is parsed; "roundtrip": a formatted post;
                 \* "canonical": a response in the structure asked for
    p_source,    \* the YogaBlogPost given to format_blog_post
    p_content,   \* the argument of parse_response
    p_lines,     \* the lines of content.split('\n') not yet visited
    p_st,        \* sections, current_section, current_text
    p_prev,      \* the parser state before the line visited last
    p_line,      \* the line visited last, stripped
    p_out,       \* the outcome of parse_response
    session_state,  \* session_state of the workflow session of each session_id
    calls,          \* the calls of run in flight, per caller
    page,           \* the widgets of main and st.session_state.current_blog
    norm            \* a topic and the keys url_safe_topic makes of it

parser_vars == <<p_pc, p_mode, p_source, p_content, p_lines, p_st, p_prev,
                 p_line, p_out>>

workflow_vars == <<session_state, calls>>

vars == <<parser_vars, workflow_vars, page, norm>>

(***************************************************************************)
(* Bounds and input sets of the parser.                                    *)
(***************************************************************************)
MaxLines == 3

\* lines a response may be made of
LinePool ==
    { <<"#","#"," ","T">>,
      PerspectivePrefix, SciencePrefix, IntegrationHeading,
      ApplicationsPrefix, TakeawaysPrefix, ReferencesPrefix,
      <<"a">>,
      <<" ","c"," ">>,
      <<"-"," ","b">>,
      <<"*"," ","b">>,
      <<"1","."," ","b">>,
      <<"-"," ","2"," ","d">>,
      <<"-"," ","-">>,
      SignOffPrefix \o <<" ","x">>,
      <<>> }

RawContents ==
    { Join(ls, NL) : ls \in UNION { [1..n -> LinePool] : n \in 0..MaxLines } }

\* field values of the posts given to format_blog_post
TitleValues == { <<"T">>, <<>> }
TextValues == { <<>>, <<"a">>, <<"a", NL, "c">> }
ListValues == { <<>>, << <<"b">> >>, << <<"b">>, <<"e">> >>, << <<"2"," ","d">> >> }

Posts ==
    [title : TitleValues,
     perspective : TextValues, science : TextValues, integration : TextValues,
     applications : ListValues, takeaways : ListValues, references : ListValues]

\* responses in the structure the writer is asked for: the content lines of
\* a free-text section, and the items of a list section, each a marker and
\* its content
CanonicalTitles == { <<"T">>, <<"A"," ","#","#"," ","B">> }

ContentLines == { <<>>, << <<"a">> >>, << <<"a">>, <<"c">> >> }

Item(marker, content) == [marker |-> marker, content |-> content]

ItemLists ==
    { <<>>,
      << Item(<<"-"," ">>, <<"b">>) >>,
      << Item(<<"*"," ">>, <<"b">>), Item(<<"1","."," ">>, <<"e">>) >>,
      << Item(<<"-"," ">>, <<"2"," ","d">>) >> }

ItemLine(item) == item.marker \o item.content

\* the title line and the six sub-headings in the order of lines 40-52, each
\* followed by its content
CanonicalText(title, perspective, science, integration, applications, takeaways, references) ==
    Join(<< TitleMarker \o title >>
         \o << PerspectivePrefix >> \o perspective
         \o << SciencePrefix >> \o science
         \o << IntegrationHeading >> \o integration
         \o << ApplicationsPrefix >>
         \o [i \in 1..Len(applications) |-> ItemLine(applications[i])]
         \o << TakeawaysPrefix >>
         \o [i \in 1..Len(takeaways) |-> ItemLine(takeaways[i])]
         \o << ReferencesPrefix >>
         \o [i \in 1..Len(references) |-> ItemLine(references[i])], NL)

\* the post such a response describes
CanonicalPost(title, perspective, science, integration, applications, takeaways, references) ==
    [title        |-> title,
     perspective  |-> Join(perspective, NL),
     science      |-> Join(science, NL),
     integration  |-> Join(integration, NL),
     applications |-> [i \in 1..Len(applications) |-> applications[i].content],
     takeaways    |-> [i \in 1..Len(takeaways) |-> takeaways[i].content],
     references   |-> [i \in 1..Len(references) |-> references[i].content]]

EmptyPost == YogaBlogPost(ParserInit.sections)

NoOutcome == [raised |-> FALSE, sections |-> ParserInit.sections, post |-> EmptyPost]

(***************************************************************************)
(* The cache in session_state, and the texts of the workflow.              *)
(***************************************************************************)
UpperCase ==
    <<"A","B","C","D","E","F","G","H","I","J","K","L","M",
      "N","O","P","Q","R","S","T","U","V","W","X","Y","Z">>
LowerCase ==
    <<"a","b","c","d","e","f","g","h","i","j","k","l","m",
      "n","o","p","q","r","s","t","u","v","w","x","y","z">>

\* topic.lower()
Lower(s) ==
    [i \in 1..Len(s) |->
        IF \E k \in 1..Len(UpperCase) : UpperCase[k] = s[i]
        THEN LowerCase[CHOOSE k \in 1..Len(UpperCase) : UpperCase[k] = s[i]]
        ELSE s[i]]

\* topic.swapcase() in place of topic.lower()
url_safe_topic_SwapCase(topic) ==
    [i \in 1..Len(topic) |->
        IF \E k \in 1..Len(UpperCase) : UpperCase[k] = topic[i]
        THEN LowerCase[CHOOSE k \in 1..Len(UpperCase) : UpperCase[k] = topic[i]]
        ELSE IF \E k \in 1..Len(LowerCase) : LowerCase[k] = topic[i]
        THEN UpperCase[CHOOSE k \in 1..Len(LowerCase) : LowerCase[k] = topic[i]]
        ELSE IF topic[i] = " " THEN "-" ELSE topic[i]]

\* topic.lower().replace(" ", "-")
url_safe_topic(topic) ==
    [i \in 1..Len(topic) |-> IF Lower(topic)[i] = " " THEN "-" ELSE Lower(topic)[i]]

\* f"yoga-blog-{url_safe_topic}"
SessionId(topic) == SessionPrefix \o url_safe_topic(topic)

\* topics a caller may ask for
Topics == { <<"A"," ","b">>, <<"a"," ","b">>, <<"c">> }

SessionIds == { SessionId(t) : t \in Topics }

\* a Python dict with no key
EmptyDict == [k \in {} |-> <<>>]

\* Optional[str]: None is <<>>, a str s is <<s>>
None == <<>>
Some(s) == <<s>>

\* Python truth of an Optional[str]: neither None nor ''
Truthy(opt) == opt # None /\ opt[1] # <<>>

\* self.session_state.get("yoga_blogs", {})
YogaBlogs(state) ==
    IF "yoga_blogs" \in DOMAIN state THEN state["yoga_blogs"] ELSE EmptyDict

\* self.session_state.get("yoga_blogs", {}).get(topic)
get_cached_blog_post(state, topic) ==
    IF topic \in DOMAIN YogaBlogs(state) THEN Some(YogaBlogs(state)[topic]) ELSE None

\* setdefault("yoga_blogs", {}) and the assignment under the key topic
add_blog_post_to_cache(state, topic, blog_post) ==
    [k \in DOMAIN state \cup {"yoga_blogs"} |->
        IF k = "yoga_blogs"
        THEN [t \in DOMAIN YogaBlogs(state) \cup {topic} |->
                 IF t = topic THEN blog_post ELSE YogaBlogs(state)[t]]
        ELSE state[k]]

\* f"Failed to generate blog post about: {topic}"
FailedMessage(topic) == FailedPrefix \o topic

\* f"Error: {str(e)}"
ErrorMessage(e) == ErrorPrefix \o e

\* str(e) of the exceptions the collaborator raises
WriterErrors == { <<"t","i","m","e","o","u","t">> }

\* str(e) of the ValidationError of YogaBlogPost(**sections)
ValidationErrorText == <<"v","a","l","i","d","a","t","i","o","n">>

\* non-empty texts the collaborator returns: the structure asked for, the
\* sub-headings in another order, and text with no heading
ResponseTexts ==
    { Join(<< <<"#","#"," ","T">>,
              PerspectivePrefix, <<"a">>,
              SciencePrefix, <<"c">>,
              IntegrationHeading, <<"e">>,
              ApplicationsPrefix, <<"-"," ","b">>,
              TakeawaysPrefix, <<"-"," ","d">>,
              ReferencesPrefix, <<"1","."," ","f">> >>, NL),
      Join(<< ApplicationsPrefix, <<"-"," ","b">>, PerspectivePrefix, <<"a">> >>, NL),
      <<"a">> }

(***************************************************************************)
(* One call of run: the local variables of the generator, and what the     *)
(* call has done so far.                                                   *)
(***************************************************************************)
\* run is synchronous: a caller has one call in flight
Callers == {1}

IdleCall ==
    [pc             |-> "idle",
     session_id     |-> <<>>,
     topic          |-> <<>>,
     use_cache      |-> FALSE,
     response       |-> <<>>,       \* response.content
     blog_post      |-> EmptyPost,
     formatted_post |-> <<>>,
     yielded        |-> <<>>,       \* content of every RunResponse yielded
     writer_runs    |-> 0,          \* invocations of self.writer.run
     trail          |-> <<>>]       \* the steps entered, in order

Enter(call, step) == [call EXCEPT !.pc = step, !.trail = Append(@, step)]

Yield(call, content) ==
    [Enter(call, "DONE") EXCEPT !.yielded = Append(@, content)]

\* the call at line 163: the arguments are bound and nothing else is done yet
NewCall(sid, topic, use_cache) ==
    Enter([IdleCall EXCEPT !.session_id = sid, !.topic = topic,
                           !.use_cache = use_cache], "START")

\* run(topic, use_cache) called on the workflow of the session sid
StartRun(c, sid, topic, use_cache) ==
    /\ calls[c].pc = "idle"
    /\ calls' = [calls EXCEPT ![c] = NewCall(sid, topic, use_cache)]
    /\ UNCHANGED <<session_state, parser_vars, page, norm>>

\* generate_blog_post(topic): a workflow on the session named after the
\* topic, and run(topic=topic, use_cache=True) on it
generate_blog_post(c, topic) ==
    /\ calls[c].pc = "idle"
    /\ calls' = [calls EXCEPT ![c] = NewCall(SessionId(topic), topic, TRUE)]
    /\ UNCHANGED <<session_state, parser_vars, page, norm>>

\* the flag read the wrong way round: the cache is used when use_cache is off
CachedPost_InvertedFlag(call, state) ==
    IF ~call.use_cache /\ Truthy(get_cached_blog_post(state, call.topic))
    THEN get_cached_blog_post(state, call.topic)
    ELSE None

\* the outcome of lines 165-179 for a call: the cached post to yield, or None
CachedPost(call, state) ==
    IF call.use_cache /\ Truthy(get_cached_blog_post(state, call.topic))
    THEN get_cached_blog_post(state, call.topic)
    ELSE None

\* lines 165-182: the cache is consulted; a hit is yielded, otherwise the
\* prompt is built and self.writer.run(prompt) is invoked
CheckCache(c) ==
    LET call == calls[c]
        hit  == CachedPost(call, session_state[call.session_id])
    IN  /\ call.pc = "START"
        /\ calls' = [calls EXCEPT ![c] =
                IF hit # None
                THEN Yield(call, hit[1])
                ELSE [Enter(call, "GENERATING") EXCEPT !.writer_runs = @ + 1]]
        /\ UNCHANGED <<session_state, parser_vars, page, norm>>

\* a retry: the except branch invokes self.writer.run again
WriterRaises_Retries(c, e) ==
    /\ calls[c].pc = "GENERATING"
    /\ calls' = [calls EXCEPT ![c] =
                    [Enter(@, "GENERATING") EXCEPT !.writer_runs = @ + 1]]
    /\ UNCHANGED <<session_state, parser_vars, page, norm>>

\* self.writer.run raises: the except branch yields the error
WriterRaises(c, e) ==
    /\ calls[c].pc = "GENERATING"
    /\ calls' = [calls EXCEPT ![c] = Yield(@, ErrorMessage(e))]
    /\ UNCHANGED <<session_state, parser_vars, page, norm>>

\* the failure message stored like a post
WriterReturnsEmpty_CachesMessage(c) ==
    /\ calls[c].pc = "GENERATING"
    /\ session_state' = [session_state EXCEPT ![calls[c].session_id] =
            add_blog_post_to_cache(@, calls[c].topic, FailedMessage(calls[c].topic))]
    /\ calls' = [calls EXCEPT ![c] = Yield(@, FailedMessage(calls[c].topic))]
    /\ UNCHANGED <<parser_vars, page, norm>>

\* self.writer.run returns None, or a response whose content is None or ''
WriterReturnsEmpty(c) ==
    /\ calls[c].pc = "GENERATING"
    /\ calls' = [calls EXCEPT ![c] = Yield(@, FailedMessage(calls[c].topic))]
    /\ UNCHANGED <<session_state, parser_vars, page, norm>>

\* self.writer.run returns a response with non-empty content
WriterReturns(c, content) ==
    /\ calls[c].pc = "GENERATING"
    /\ content # <<>>
    /\ calls' = [calls EXCEPT ![c] = [Enter(@, "PARSING") EXCEPT !.response = content]]
    /\ UNCHANGED <<session_state, parser_vars, page, norm>>

\* line 184; a ValidationError is caught by the except branch of run
ParseResponse(c) ==
    LET call == calls[c]
        out  == parse_response(call.response)
    IN  /\ call.pc = "PARSING"
        /\ calls' = [calls EXCEPT ![c] =
                IF out.raised
                THEN Yield(call, ErrorMessage(ValidationErrorText))
                ELSE [Enter(call, "FORMATTING") EXCEPT !.blog_post = out.post]]
        /\ UNCHANGED <<session_state, parser_vars, page, norm>>

\* line 185
FormatBlogPost(c) ==
    LET call == calls[c]
    IN  /\ call.pc = "FORMATTING"
        /\ calls' = [calls EXCEPT ![c] =
                [Enter(call, "CACHE_WRITE") EXCEPT
                    !.formatted_post = format_blog_post(call.blog_post)]]
        /\ UNCHANGED <<session_state, parser_vars, page, norm>>

\* response.content cached in place of formatted_post
CacheWrite_StoresResponse(call, state) ==
    add_blog_post_to_cache(state, call.topic, call.response)

\* setdefault on the topic: an entry already there is kept
CacheWrite_KeepExisting(call, state) ==
    IF call.topic \in DOMAIN YogaBlogs(state)
    THEN state
    ELSE add_blog_post_to_cache(state, call.topic, call.formatted_post)

\* session_state after line 186
CacheWrite(call, state) == add_blog_post_to_cache(state, call.topic, call.formatted_post)

\* lines 186-192: the post is cached and yielded
CacheAndYield(c) ==
    LET call == calls[c]
    IN  /\ call.pc = "CACHE_WRITE"
        /\ session_state' = [session_state EXCEPT ![call.session_id] =
                                CacheWrite(call, @)]
        /\ calls' = [calls EXCEPT ![c] = Yield(call, call.formatted_post)]
        /\ UNCHANGED <<parser_vars, page, norm>>

\* the caller takes response.content of the one response and the generator ends
Return(c) ==
    /\ calls[c].pc = "DONE"
    /\ calls' = [calls EXCEPT ![c] = IdleCall]
    /\ UNCHANGED <<session_state, parser_vars, page, norm>>

(***************************************************************************)
(* The parser, one step per line.                                          *)
(***************************************************************************)
ParserStart ==
    /\ p_st = ParserInit
    /\ p_prev = ParserInit
    /\ p_line = <<>>
    /\ p_lines = <<>>
    /\ p_out = NoOutcome

WorkflowStart ==
    /\ session_state = [sid \in SessionIds |-> EmptyDict]
    /\ calls = [c \in Callers |-> IdleCall]

\* main before any interaction: the checkbox of line 247 is ticked
\* (value=True), the text input is empty and no post is shown
PageStart ==
    page = [use_cache |-> TRUE, topic |-> <<>>, current_blog |-> None]

\* no topic is being normalised
NormStart ==
    norm = [pc |-> "idle", topic |-> <<>>, key |-> <<>>, again |-> <<>>]

InitParser ==
    /\ ParserStart
    /\ WorkflowStart
    /\ PageStart
    /\ NormStart
    /\ \/ /\ p_mode = "raw"
          /\ p_pc = "split"
          /\ p_source = EmptyPost
          /\ p_content \in RawContents
       \/ /\ p_mode = "roundtrip"
          /\ p_pc = "format"
          /\ p_source \in Posts
          /\ p_content = <<>>
       \/ /\ p_mode = "canonical"
          /\ p_pc = "split"
          /\ \E ti \in CanonicalTitles,
                ps \in ContentLines, sc \in ContentLines, ig \in ContentLines,
                ap \in ItemLists, tk \in ItemLists, rf \in ItemLists :
                /\ p_source = CanonicalPost(ti, ps, sc, ig, ap, tk, rf)
                /\ p_content = CanonicalText(ti, ps, sc, ig, ap, tk, rf)

\* format_blog_post(blog)
FormatPost ==
    /\ p_pc = "format"
    /\ p_content' = format_blog_post(p_source)
    /\ p_pc' = "split"
    /\ UNCHANGED <<p_mode, p_source, p_lines, p_st, p_prev, p_line, p_out>>
    /\ UNCHANGED <<workflow_vars, page, norm>>

\* line 81: content.split('\n')
SplitContent ==
    /\ p_pc = "split"
    /\ p_lines' = Split(p_content, NL)
    /\ p_pc' = "loop"
    /\ UNCHANGED <<p_mode, p_source, p_content, p_st, p_prev, p_line, p_out>>
    /\ UNCHANGED <<workflow_vars, page, norm>>

\* lines 81-123: one iteration
VisitLine ==
    /\ p_pc = "loop"
    /\ p_lines # <<>>
    /\ p_prev' = p_st
    /\ p_line' = StripChars(Head(p_lines), Whitespace)
    /\ p_st' = ParseLine(p_st, Head(p_lines))
    /\ p_lines' = Tail(p_lines)
    /\ UNCHANGED <<p_pc, p_mode, p_source, p_content, p_out>>
    /\ UNCHANGED <<workflow_vars, page, norm>>

\* lines 125-133: the loop is over
FinishParse ==
    /\ p_pc = "loop"
    /\ p_lines = <<>>
    /\ p_out' = ParseOutcome(p_st)
    /\ p_pc' = IF ParseOutcome(p_st).raised THEN "raised" ELSE "done"
    /\ UNCHANGED <<p_mode, p_source, p_content, p_lines, p_st, p_prev, p_line>>
    /\ UNCHANGED <<workflow_vars, page, norm>>

NextParser ==
    \/ FormatPost
    \/ SplitContent
    \/ VisitLine
    \/ FinishParse

SpecParser == InitParser /\ [][NextParser]_vars

(***************************************************************************)
(* The workflow: calls of run on the sessions.                             *)
(***************************************************************************)
Init ==
    /\ ParserStart
    /\ WorkflowStart
    /\ PageStart
    /\ NormStart
    /\ p_pc = "idle"
    /\ p_mode = "raw"
    /\ p_source = EmptyPost
    /\ p_content = <<>>

Next ==
    \E c \in Callers :
        \/ \E sid \in SessionIds, t \in Topics, u \in BOOLEAN : StartRun(c, sid, t, u)
        \/ \E t \in Topics : generate_blog_post(c, t)
        \/ CheckCache(c)
        \/ \E e \in WriterErrors : WriterRaises(c, e)
        \/ WriterReturnsEmpty(c)
        \/ \E r \in ResponseTexts : WriterReturns(c, r)
        \/ ParseResponse(c)
        \/ FormatBlogPost(c)
        \/ CacheAndYield(c)
        \/ Return(c)

Spec == Init /\ [][Next]_vars

(***************************************************************************)
(* Calls of run that overlap on one session.  add_blog_post_to_cache is    *)
(* two dict operations, each atomic, and another call may run between.     *)
(***************************************************************************)
ConcurrentCallers == {1, 2}

\* two topics that share the session yoga-blog-a-b
ConcurrentTopics == { <<"a"," ","b">>, <<"A"," ","b">> }

SharedSession == SessionId(<<"a"," ","b">>)

\* self.session_state["yoga_blogs"] = {} in place of setdefault
SetDefaultBlogs_Resets(state) ==
    [k \in DOMAIN state \cup {"yoga_blogs"} |->
        IF k = "yoga_blogs" THEN EmptyDict ELSE state[k]]

\* line 64: self.session_state.setdefault("yoga_blogs", {})
SetDefaultBlogs(state) ==
    [k \in DOMAIN state \cup {"yoga_blogs"} |->
        IF k = "yoga_blogs" THEN YogaBlogs(state) ELSE state[k]]

InitConcurrent ==
    /\ ParserStart
    /\ PageStart
    /\ NormStart
    /\ p_pc = "idle"
    /\ p_mode = "raw"
    /\ p_source = EmptyPost
    /\ p_content = <<>>
    /\ session_state = [sid \in SessionIds |-> EmptyDict]
    /\ calls = [c \in ConcurrentCallers |-> IdleCall]

\* line 64, reached from line 186
CacheSetDefault(c) ==
    LET call == calls[c]
    IN  /\ call.pc = "CACHE_WRITE"
        /\ session_state' = [session_state EXCEPT ![call.session_id] =
                                SetDefaultBlogs(@)]
        /\ calls' = [calls EXCEPT ![c] = Enter(call, "CACHE_ASSIGN")]
        /\ UNCHANGED <<parser_vars, page, norm>>

\* line 65 and lines 188-192: the entry is assigned and the post yielded
CacheAssign(c) ==
    LET call == calls[c]
    IN  /\ call.pc = "CACHE_ASSIGN"
        /\ session_state' = [session_state EXCEPT ![call.session_id] =
                                CacheWrite(call, @)]
        /\ calls' = [calls EXCEPT ![c] = Yield(call, call.formatted_post)]
        /\ UNCHANGED <<parser_vars, page, norm>>

NextConcurrent ==
    \E c \in ConcurrentCallers :
        \/ \E t \in ConcurrentTopics, u \in BOOLEAN : StartRun(c, SharedSession, t, u)
        \/ CheckCache(c)
        \/ \E e \in WriterErrors : WriterRaises(c, e)
        \/ WriterReturnsEmpty(c)
        \/ \E r \in ResponseTexts : WriterReturns(c, r)
        \/ ParseResponse(c)
        \/ FormatBlogPost(c)
        \/ CacheSetDefault(c)
        \/ CacheAssign(c)
        \/ Return(c)

SpecConcurrent == InitConcurrent /\ [][NextConcurrent]_vars

(***************************************************************************)
(* main: the page.  Streamlit runs main from top to bottom on every        *)
(* interaction, so a widget changes only while no call is in flight.       *)
(***************************************************************************)
\* line 247: the "Use cached posts" checkbox is ticked or unticked
ToggleUseCache(c) ==
    /\ calls[c].pc = "idle"
    /\ page' = [page EXCEPT !.use_cache = ~@]
    /\ UNCHANGED <<parser_vars, workflow_vars, norm>>

\* lines 254-258: a topic is typed into the text input, or the input cleared
TypeTopic(c, topic) ==
    /\ calls[c].pc = "idle"
    /\ topic # page.topic
    /\ page' = [page EXCEPT !.topic = topic]
    /\ UNCHANGED <<parser_vars, workflow_vars, norm>>

\* lines 260-264: the button is pressed with a topic in the input, and
\* generate_blog_post(topic) is called; the checkbox value is not passed
ClickGenerate(c) ==
    /\ page.topic # <<>>
    /\ generate_blog_post(c, page.topic)

\* lines 221 and 265: the content of the first response is returned and kept
\* in st.session_state.current_blog
ShowBlog(c) ==
    /\ calls[c].pc = "DONE"
    /\ page' = [page EXCEPT !.current_blog = Some(calls[c].yielded[1])]
    /\ calls' = [calls EXCEPT ![c] = IdleCall]
    /\ UNCHANGED <<session_state, parser_vars, norm>>

NextUI ==
    \E c \in Callers :
        \/ ToggleUseCache(c)
        \/ \E t \in Topics \cup {<<>>} : TypeTopic(c, t)
        \/ ClickGenerate(c)
        \/ CheckCache(c)
        \/ \E e \in WriterErrors : WriterRaises(c, e)
        \/ WriterReturnsEmpty(c)
        \/ \E r \in ResponseTexts : WriterReturns(c, r)
        \/ ParseResponse(c)
        \/ FormatBlogPost(c)
        \/ CacheAndYield(c)
        \/ ShowBlog(c)

SpecUI == Init /\ [][NextUI]_vars

(***************************************************************************)
(* The key of a topic: url_safe_topic applied to a topic, and to its own   *)
(* result.                                                                 *)
(***************************************************************************)
MaxTopicLen == 3

TopicChars == {"A", "b", " ", "-"}

TopicStrings == UNION { [1..n -> TopicChars] : n \in 0..MaxTopicLen }

InitNormalize ==
    /\ ParserStart
    /\ WorkflowStart
    /\ PageStart
    /\ p_pc = "idle"
    /\ p_mode = "raw"
    /\ p_source = EmptyPost
    /\ p_content = <<>>
    /\ \E t \in TopicStrings :
           norm = [pc |-> "topic", topic |-> t, key |-> <<>>, again |-> <<>>]

\* line 209 on the topic
NormalizeTopic ==
    /\ norm.pc = "topic"
    /\ norm' = [norm EXCEPT !.pc = "key", !.key = url_safe_topic(norm.topic)]
    /\ UNCHANGED <<parser_vars, workflow_vars, page>>

\* line 209 on a topic that already is a key
NormalizeKey ==
    /\ norm.pc = "key"
    /\ norm' = [norm EXCEPT !.pc = "again", !.again = url_safe_topic(norm.key)]
    /\ UNCHANGED <<parser_vars, workflow_vars, page>>

NextNormalize ==
    \/ NormalizeTopic
    \/ NormalizeKey

SpecNormalize == InitNormalize /\ [][NextNormalize]_vars

(***************************************************************************)
(* Properties of parse_response and format_blog_post (SpecParser).         *)
(***************************************************************************)
ParserReturned == p_pc \in {"done", "raised"}

\* the line starts one of the six sub-headings
IsSubHeading(line) ==
    /\ ~StartsWith(line, TitleMarker)
    /\ \E h \in {PerspectivePrefix, SciencePrefix, IntegrationPrefix,
                 ApplicationsPrefix, TakeawaysPrefix, ReferencesPrefix} :
           StartsWith(line, h)

\* the field of section holds the buffer text: joined by newlines for a
\* free-text section, as the list of its non-empty items for a list section
HoldsBuffer(sections, section, text) ==
    IF section \in TextSections
    THEN /\ sections[section].type = "str"
         /\ sections[section].v = Join(text, NL)
    ELSE /\ sections[section].type = "list"
         /\ \/ sections[section].v = TrimItems(text)
            \/ sections[section].v = SelectNonEmpty(text)

\* C1: parse_response never raises, and every field of the Record it returns
\* has the type of its field: str for title and the free-text sections, a
\* list for applications, takeaways and references.
C1_ParseTotal ==
    ParserReturned =>
        /\ ~p_out.raised
        /\ \A k \in DOMAIN p_out.sections : p_out.sections[k].type = FieldType(k)

\* C3: when the input ends while a section is open and holds accumulated
\* lines, the returned Record's field of that section contains them.
C3_EndOfInputFlush ==
    (/\ ParserReturned
     /\ p_st.current_section # "none"
     /\ p_st.current_text # <<>>)
        => HoldsBuffer(p_out.sections, p_st.current_section, p_st.current_text)

\* C4: a sub-heading line met while a section is open and holds accumulated
\* lines writes them to that section's field before the buffer is cleared.
C4_TransitionFlush ==
    (/\ p_pc \in {"loop", "done", "raised"}
     /\ IsSubHeading(p_line)
     /\ p_prev.current_section # "none"
     /\ p_prev.current_text # <<>>)
        => /\ HoldsBuffer(p_st.sections, p_prev.current_section, p_prev.current_text)
           /\ p_st.current_text = <<>>

\* C5: parsing the formatted text of a Record whose free-text fields hold no
\* heading-like line returns a Record equal to it in all seven fields.
C5_RoundTrip ==
    (ParserReturned /\ p_mode = "roundtrip")
        => /\ ~p_out.raised
           /\ p_out.post = p_source

(***************************************************************************)
(* Properties of run and the cache (Spec).                                 *)
(***************************************************************************)
\* the yoga_blogs dict of the session a call runs on
CacheOf(call) == YogaBlogs(session_state[call.session_id])

IsFailureMessage(text) ==
    StartsWith(text, FailedPrefix) \/ StartsWith(text, ErrorPrefix)

HitTrail == <<"START", "DONE">>
FailureTrail == <<"START", "GENERATING", "DONE">>
SuccessTrail ==
    <<"START", "GENERATING", "PARSING", "FORMATTING", "CACHE_WRITE", "DONE">>

Wrote(call) == \E i \in DOMAIN call.trail : call.trail[i] = "CACHE_WRITE"

\* C2: a call that got a non-empty response text ends with the formatted
\* document yielded and stored in the cache under its topic; a failure
\* message is yielded only after the collaborator raised or returned nothing.
C2_NonEmptyResponseIsPublished ==
    \A c \in DOMAIN calls :
        LET call == calls[c]
        IN  /\ (call.pc = "DONE" /\ call.response # <<>>)
                => /\ call.formatted_post # <<>>
                   /\ call.yielded = <<call.formatted_post>>
                   /\ get_cached_blog_post(session_state[call.session_id], call.topic)
                          = Some(call.formatted_post)
            /\ (call.pc = "DONE" /\ IsFailureMessage(call.yielded[1]))
                => call.trail = FailureTrail

\* C6 (step): with use_cache on and an entry for the topic in the cache, the
\* call yields exactly that entry, invokes neither the collaborator nor the
\* parser or formatter, and leaves the cache as it was.
C6_HitStep(c) ==
    LET call == calls[c]
    IN  (/\ call.pc = "START"
         /\ call.use_cache
         /\ call.topic \in DOMAIN CacheOf(call)
         /\ calls'[c] # call)
            => /\ calls'[c].pc = "DONE"
               /\ calls'[c].yielded = <<CacheOf(call)[call.topic]>>
               /\ calls'[c].trail = HitTrail
               /\ calls'[c].writer_runs = 0
               /\ calls'[c].response = <<>>
               /\ calls'[c].blog_post = EmptyPost
               /\ calls'[c].formatted_post = <<>>
               /\ session_state' = session_state

\* C6 (state): the document a successful call returned is the cache entry of
\* its topic, so the next call with use_cache on returns the same document.
C6_ReturnedIsCached ==
    \A c \in DOMAIN calls :
        (calls[c].pc = "DONE" /\ (Wrote(calls[c]) \/ calls[c].trail = HitTrail))
            => /\ calls[c].topic \in DOMAIN CacheOf(calls[c])
               /\ calls[c].yielded = <<CacheOf(calls[c])[calls[c].topic]>>

\* C6: a call with use_cache on whose topic has a cache entry returns that
\* entry with no collaborator, parser or formatter work and an unchanged
\* cache; two successive such calls return the identical document.
C6_CacheHit ==
    /\ []C6_ReturnedIsCached
    /\ [][\A c \in DOMAIN calls : C6_HitStep(c)]_vars

\* a call has returned a cached entry without invoking the collaborator
C6_Witness ==
    \E c \in DOMAIN calls :
        /\ calls[c].pc = "DONE"
        /\ calls[c].use_cache
        /\ calls[c].trail = HitTrail
        /\ calls[c].writer_runs = 0
        /\ calls[c].yielded = <<CacheOf(calls[c])[calls[c].topic]>>

\* C7 (step): with use_cache off the collaborator is invoked whether or not
\* an entry exists; the cache write puts the new document under the topic,
\* replacing what was there and touching no other entry; between calls the
\* cache does not change; a later call with use_cache on yields the entry.
C7_Step(c) ==
    LET call == calls[c]
        old  == CacheOf(call)
        new  == YogaBlogs(session_state'[call.session_id])
    IN  /\ (call.pc = "START" /\ ~call.use_cache /\ calls'[c] # call)
            => /\ calls'[c].pc = "GENERATING"
               /\ calls'[c].writer_runs = 1
               /\ session_state' = session_state
        /\ (call.pc = "CACHE_WRITE" /\ calls'[c] # call)
            => /\ DOMAIN new = DOMAIN old \cup {call.topic}
               /\ new[call.topic] = call.formatted_post
               /\ \A t \in DOMAIN old \ {call.topic} : new[t] = old[t]
               /\ \A sid \in SessionIds \ {call.session_id} :
                      session_state'[sid] = session_state[sid]
               /\ calls'[c].pc = "DONE"
               /\ calls'[c].yielded = <<call.formatted_post>>
        /\ (call.pc \in {"idle", "DONE"} /\ calls'[c] # call)
            => session_state' = session_state
        /\ (/\ call.pc = "START" /\ call.use_cache
            /\ call.topic \in DOMAIN old /\ calls'[c] # call)
            => /\ calls'[c].yielded = <<old[call.topic]>>
               /\ calls'[c].writer_runs = 0

\* C7: a successful run with use_cache off generates even when an entry
\* exists and overwrites the entry of its topic with the new document
\* (last write wins, nothing merged), which a following run with use_cache
\* on returns without invoking the collaborator.
C7_BypassStillWrites == [][\A c \in DOMAIN calls : C7_Step(c)]_vars

\* a call with use_cache off has written its document over the entry of its
\* topic in a cache that holds another topic as well
C7_Witness ==
    \E c \in DOMAIN calls :
        /\ calls[c].pc = "DONE"
        /\ ~calls[c].use_cache
        /\ calls[c].trail = SuccessTrail
        /\ CacheOf(calls[c])[calls[c].topic] = calls[c].formatted_post
        /\ Cardinality(DOMAIN CacheOf(calls[c])) >= 2

\* C8 (step): when the collaborator raises or returns nothing, the call
\* yields a failure message and the cache of every session is unchanged.
C8_Step(c) ==
    LET call == calls[c]
    IN  (call.pc = "GENERATING" /\ calls'[c].pc = "DONE")
            => /\ session_state' = session_state
               /\ calls'[c].yielded \in
                      {<<FailedMessage(call.topic)>>}
                          \cup {<<ErrorMessage(e)>> : e \in WriterErrors}

\* C8 (state): no cache entry is a failure message.
C8_NoFailureCached ==
    \A sid \in SessionIds :
        \A t \in DOMAIN YogaBlogs(session_state[sid]) :
            ~IsFailureMessage(YogaBlogs(session_state[sid])[t])

\* C8: a generation failure returns a failure message, leaves every cache
\* entry as it was, and the failure message is never stored in the cache.
C8_FailureLeavesCache ==
    /\ []C8_NoFailureCached
    /\ [][\A c \in DOMAIN calls : C8_Step(c)]_vars

\* a call has failed in generation while the cache holds an entry for its topic
C8_Witness ==
    \E c \in DOMAIN calls :
        /\ calls[c].pc = "DONE"
        /\ calls[c].trail = FailureTrail
        /\ IsFailureMessage(calls[c].yielded[1])
        /\ calls[c].topic \in DOMAIN CacheOf(calls[c])

\* C9: after a successful run for a topic, a cache lookup for any topic with
\* the same normalized key finds the document stored by that run.
C9_NormalizedKeyLookup ==
    \A c \in DOMAIN calls :
        (calls[c].pc = "DONE" /\ Wrote(calls[c]))
            => \A t2 \in Topics :
                   url_safe_topic(t2) = url_safe_topic(calls[c].topic)
                       => get_cached_blog_post(session_state[calls[c].session_id], t2)
                              = Some(calls[c].yielded[1])

\* the order of the steps of one call
StepRank(step) ==
    CASE step = "START" -> 1
      [] step = "GENERATING" -> 2
      [] step = "PARSING" -> 3
      [] step = "FORMATTING" -> 4
      [] step = "CACHE_WRITE" -> 5
      [] step = "DONE" -> 6

\* C10 (state): a call invokes the collaborator at most once, exactly once
\* when it is past the cache check without a hit; it has yielded one result
\* when done and none before; it enters its steps in order, none twice.
C10_OneAttemptOneResult ==
    \A c \in DOMAIN calls :
        LET call == calls[c]
        IN  /\ call.writer_runs <= 1
            /\ \A i, j \in DOMAIN call.trail :
                   i < j => StepRank(call.trail[i]) < StepRank(call.trail[j])
            /\ Len(call.yielded) = IF call.pc = "DONE" THEN 1 ELSE 0
            /\ call.pc \in {"GENERATING", "PARSING", "FORMATTING", "CACHE_WRITE"}
                   => call.writer_runs = 1
            /\ call.pc = "DONE"
                   => call.writer_runs = IF call.trail = HitTrail THEN 0 ELSE 1

\* C10 (step): after its one result a call does nothing but end.
C10_DoneIsFinal(c) ==
    (calls[c].pc = "DONE" /\ calls'[c] # calls[c]) => calls'[c] = IdleCall

\* C10: every call that is not a cache hit invokes the collaborator exactly
\* once, every call yields exactly one result and then ends, and no step of
\* START, GENERATING, PARSING, FORMATTING, CACHE_WRITE, DONE is entered twice.
C10_SingleAttempt ==
    /\ []C10_OneAttemptOneResult
    /\ [][\A c \in DOMAIN calls : C10_DoneIsFinal(c)]_vars

\* a call has gone through every step once and yielded its document
C10_Witness ==
    \E c \in DOMAIN calls :
        /\ calls[c].pc = "DONE"
        /\ calls[c].trail = SuccessTrail
        /\ calls[c].writer_runs = 1
        /\ Len(calls[c].yielded) = 1

(***************************************************************************)
(* Properties of the lines of parse_response (SpecParser).                 *)
(***************************************************************************)
\* a line has been visited and p_prev, p_line, p_st describe that visit
Visited == p_pc \in {"loop", "done", "raised"} /\ p_line # <<>>

\* the list markers: a dash, an asterisk, digits and a dot
Markers ==
    { <<"-", " ">>, <<"*", " ">>, <<"1", ".", " ">>, <<"1", "2", ".", " ">> }

IsItemLine(line) == \E m \in Markers : StartsWith(line, m)

\* the content of an item line: what follows its marker
ItemContentOf(line) ==
    LET m == CHOOSE m \in Markers : StartsWith(line, m)
    IN  SubSeq(line, Len(m) + 1, Len(line))

\* C11: in the applications, takeaways and references sections the lines
\* "- c", "* c" and "<digits>. c" of one content c leave the parser with the
\* same entries to store, and change nothing else.
C11_MarkerStripping ==
    (/\ Visited
     /\ p_prev.current_section \in ListSections
     /\ IsItemLine(p_line))
        => \A m \in Markers :
               LET alt == ParseLine(p_prev, m \o ItemContentOf(p_line))
               IN  /\ SelectNonEmpty(alt.current_text)
                          = SelectNonEmpty(p_st.current_text)
                   /\ TrimItems(alt.current_text) = TrimItems(p_st.current_text)
                   /\ alt.current_section = p_st.current_section
                   /\ alt.sections = p_st.sections

\* a numbered item has been stored in a list section without its marker
C11_Witness ==
    /\ Visited
    /\ p_prev.current_section \in ListSections
    /\ p_line = <<"1", ".", " ", "b">>
    /\ p_st.current_text = Append(p_prev.current_text, <<"b">>)

\* the sub-heading lines of a text, in order
HeadingsOf(text) == SelectSeq(Split(text, NL), IsSubHeading)

SixHeadings ==
    << PerspectivePrefix, SciencePrefix, IntegrationHeading,
       ApplicationsPrefix, TakeawaysPrefix, ReferencesPrefix >>

\* the lines of text from the one after the heading to the next blank line
LinesUnder(text, heading) ==
    LET ls == Split(text, NL)
        h  == CHOOSE i \in 1..Len(ls) : ls[i] = heading
        e  == CHOOSE i \in (h + 1)..Len(ls) :
                  /\ ls[i] = <<>>
                  /\ \A j \in (h + 1)..(i - 1) : ls[j] # <<>>
    IN  SubSeq(ls, h + 1, e - 1)

\* the text shows the six sub-headings in order, the entries of applications
\* and takeaways as "- " bullets and those of references numbered from 1
ShowsLists(text, post) ==
    /\ HeadingsOf(text) = SixHeadings
    /\ post.applications # <<>> =>
           LinesUnder(text, ApplicationsPrefix) =
               [i \in 1..Len(post.applications) |->
                   <<"-", " ">> \o post.applications[i]]
    /\ post.takeaways # <<>> =>
           LinesUnder(text, TakeawaysPrefix) =
               [i \in 1..Len(post.takeaways) |-> <<"-", " ">> \o post.takeaways[i]]
    /\ post.references # <<>> =>
           LinesUnder(text, ReferencesPrefix) =
               [i \in 1..Len(post.references) |->
                   ToDecimal(i) \o <<".", " ">> \o post.references[i]]

\* C12: a response made of the title line and the six sub-headings in their
\* fixed order, each followed by its content, is parsed into the post it
\* describes (title, free-text lines joined by newlines, items without their
\* marker, in order), and formatting that post shows the six sub-headings
\* with "- " bullets and "<n>. " numbering.
C12_CanonicalParse ==
    (ParserReturned /\ p_mode = "canonical")
        => /\ ~p_out.raised
           /\ p_out.post = p_source
           /\ ShowsLists(format_blog_post(p_out.post), p_out.post)

\* part occurs in whole as a run of consecutive characters
Contains(whole, part) ==
    \E i \in 0..(Len(whole) - Len(part)) : SubSeq(whole, i + 1, i + Len(part)) = part

\* the entries come from the lines, one line each, in the order of the lines
OrderedIn(entries, lines) ==
    \E at \in [1..Len(entries) -> 1..Len(lines)] :
        /\ \A i, j \in 1..Len(entries) : i < j => at[i] < at[j]
        /\ \A i \in 1..Len(entries) : Contains(lines[at[i]], entries[i])

\* C13: the entries of a list field stand in the order of their lines in the
\* parsed text; format_blog_post writes them in stored order, the references
\* numbered from 1; and parsing the formatted text gives them in the order of
\* the post that was formatted.
C13_OrderPreserved ==
    /\ (ParserReturned /\ ~p_out.raised)
          => \A f \in ListSections :
                 OrderedIn(p_out.post[f], Split(p_content, NL))
    /\ (p_mode = "roundtrip" /\ p_pc = "split")
          => ShowsLists(p_content, p_source)
    /\ (ParserReturned /\ p_mode = "roundtrip")
          => \A f \in ListSections :
                 OrderedIn(p_out.post[f], p_source[f])

\* a post with two references has been formatted and parsed again
C13_Witness ==
    /\ p_mode = "roundtrip"
    /\ p_pc = "done"
    /\ p_source.references = << <<"b">>, <<"e">> >>
    /\ p_out.post.references = << <<"b">>, <<"e">> >>
    /\ p_out.post.takeaways = << <<"b">>, <<"e">> >>

\* C15: a line that begins with "## " sets the title to the rest of the line
\* after that one marker, verbatim, and changes neither the open section nor
\* the buffer nor any other field, whatever the parser state.
C15_TitleLine ==
    (Visited /\ StartsWith(p_line, TitleMarker))
        => /\ p_st.sections.title = PyStr(SubSeq(p_line, Len(TitleMarker) + 1, Len(p_line)))
           /\ p_st.current_section = p_prev.current_section
           /\ p_st.current_text = p_prev.current_text
           /\ \A f \in BodySections : p_st.sections[f] = p_prev.sections[f]

\* a line of content: not blank, no title, no sub-heading, no sign-off
IsContentLine(line) ==
    /\ line # <<>>
    /\ ~StartsWith(line, TitleMarker)
    /\ ~IsSubHeading(line)
    /\ ~StartsWith(line, SignOffPrefix)

\* a content line met in a free-text section goes to the end of the
\* buffer as it is, list marker included
C16_Accumulates ==
    (Visited /\ p_prev.current_section \in TextSections /\ IsContentLine(p_line))
        => /\ p_st.current_text = Append(p_prev.current_text, p_line)
           /\ p_st.current_section = p_prev.current_section
           /\ p_st.sections = p_prev.sections

\* C16: in perspective, science and integration every content line is
\* accumulated as ordinary text (a list-like line keeps its marker), and
\* when the section ends, by a sub-heading or by the end of the input, its
\* field is exactly the accumulated lines joined by single newlines.
C16_FreeText ==
    /\ C16_Accumulates
    /\ (/\ Visited
        /\ IsSubHeading(p_line)
        /\ p_prev.current_section \in TextSections
        /\ p_prev.current_text # <<>>)
          => p_st.sections[p_prev.current_section]
                 = PyStr(Join(p_prev.current_text, NL))
    /\ (/\ ParserReturned
        /\ p_st.current_section \in TextSections
        /\ p_st.current_text # <<>>)
          => /\ ~p_out.raised
             /\ p_out.post[p_st.current_section] = Join(p_st.current_text, NL)

\* no line of the text is one of the six sub-headings
NoSubHeading(text) ==
    \A i \in 1..Len(Split(text, NL)) :
        ~IsSubHeading(StripChars(Split(text, NL)[i], Whitespace))

\* C20: lines met while no section is open are stored in no field: the line
\* that ends that state, whichever it is, leaves the six body fields empty
\* and starts from an empty buffer; and a text with no sub-heading at all is
\* parsed into a post whose six body fields are empty.
C20_PreambleDropped ==
    /\ (Visited /\ p_prev.current_section = "none")
          => /\ \A f \in BodySections : p_st.sections[f] = ParserInit.sections[f]
             /\ IsSubHeading(p_line) => p_st.current_text = <<>>
    /\ (ParserReturned /\ p_mode = "raw" /\ NoSubHeading(p_content))
          => /\ ~p_out.raised
             /\ \A f \in BodySections : p_out.post[f] = <<>>

\* text met before the first sub-heading, and a parse that stored none of it
C20_Witness ==
    /\ p_pc = "done"
    /\ p_prev.current_section = "none"
    /\ p_prev.current_text = << <<"a">> >>
    /\ IsSubHeading(p_line)
    /\ \A f \in BodySections : p_out.post[f] = <<>>

(***************************************************************************)
(* Properties of url_safe_topic (SpecNormalize).                           *)
(***************************************************************************)
\* C14: the key of a key is that key: url_safe_topic applied to its own
\* result changes nothing.
C14_Idempotent ==
    norm.pc = "again" => norm.again = norm.key

\* a topic with a capital and a space has been normalised twice
C14_Witness ==
    /\ norm.pc = "again"
    /\ norm.topic = <<"A", " ", "b">>
    /\ norm.key = <<"a", "-", "b">>

\* the formatted documents of the responses that parse
CompleteDocuments ==
    { format_blog_post(parse_response(r).post) :
        r \in { x \in ResponseTexts : ~parse_response(x).raised } }

EndsWith(s, suffix) ==
    /\ Len(s) >= Len(suffix)
    /\ SubSeq(s, Len(s) - Len(suffix) + 1, Len(s)) = suffix

\* C19: every entry of every session's cache is a non-empty string that
\* format_blog_post made of a parsed post: it starts with the title heading
\* and ends with the closing signature; so the truth test of line 167 takes
\* every existing entry as a hit.
C19_CacheInvariant ==
    \A sid \in DOMAIN session_state :
        \A t \in DOMAIN YogaBlogs(session_state[sid]) :
            LET entry == YogaBlogs(session_state[sid])[t]
            IN  /\ entry # <<>>
                /\ StartsWith(entry, TitleMarker)
                /\ EndsWith(entry, <<NL>> \o SignatureRole)
                /\ entry \in CompleteDocuments
                /\ Truthy(get_cached_blog_post(session_state[sid], t))
                /\ \A u \in BOOLEAN :
                       CachedPost([IdleCall EXCEPT !.topic = t, !.use_cache = u],
                                  session_state[sid])
                           = IF u THEN Some(entry) ELSE None

\* a session holds the documents of two topics, and a call has just been
\* answered from one of them
C19_Witness ==
    \E c \in DOMAIN calls :
        /\ calls[c].pc = "DONE"
        /\ calls[c].trail = HitTrail
        /\ Cardinality(DOMAIN CacheOf(calls[c])) = 2
        /\ \E t \in DOMAIN CacheOf(calls[c]) : CacheOf(calls[c])[t] # calls[c].yielded[1]

(***************************************************************************)
(* Properties of main (SpecUI).                                            *)
(***************************************************************************)
\* C17: the value of the "Use cached posts" checkbox reaches run: a request
\* made with the box unticked runs with use_cache off, does not take the
\* cached entry of its topic and invokes the collaborator.
C17_FlagReachesRun ==
    \A c \in DOMAIN calls :
        (calls[c].pc = "DONE" /\ ~page.use_cache)
            => /\ ~calls[c].use_cache
               /\ calls[c].trail # HitTrail
               /\ calls[c].writer_runs = 1

(***************************************************************************)
(* Properties of overlapping calls (SpecConcurrent).                       *)
(***************************************************************************)
\* the cache entry of a topic on the shared session: None or Some(document)
SharedEntry(state, topic) == get_cached_blog_post(state[SharedSession], topic)

\* C18 (state): an entry is absent or the whole document some call formatted
C18_EntryIsComplete ==
    \A t \in ConcurrentTopics :
        \/ SharedEntry(session_state, t) = None
        \/ SharedEntry(session_state, t)[1] \in CompleteDocuments

\* C18 (step): an entry changes only by the assignment of a call for that
\* topic, and that assignment leaves exactly the call's document
C18_WriteStep ==
    \A t \in ConcurrentTopics :
        /\ SharedEntry(session_state', t) # SharedEntry(session_state, t)
              => \E c \in ConcurrentCallers :
                     /\ calls[c].pc = "CACHE_ASSIGN"
                     /\ calls'[c].pc = "DONE"
                     /\ calls[c].topic = t
        /\ \A c \in ConcurrentCallers :
               (/\ calls[c].pc = "CACHE_ASSIGN"
                /\ calls'[c].pc = "DONE"
                /\ calls[c].topic = t)
                   => SharedEntry(session_state', t) = Some(calls[c].formatted_post)

\* C18: under every interleaving of two calls on one session the entry of a
\* topic is absent or the complete formatted document of one call, never a
\* part or a mix, and after every cache write it is the document of the call
\* that wrote last.
C18_ConcurrentSafe == []C18_EntryIsComplete /\ [][C18_WriteStep]_vars

\* two calls for one topic both found the cache empty, both invoked the
\* writer, both wrote, and the entry is the document written last
C18_Witness ==
    \E c, d \in ConcurrentCallers :
        /\ c # d
        /\ calls[c].topic = calls[d].topic
        /\ calls[c].use_cache /\ calls[d].use_cache
        /\ calls[c].writer_runs = 1 /\ calls[d].writer_runs = 1
        /\ calls[c].pc = "DONE" /\ calls[d].pc = "DONE"
        /\ Wrote(calls[c]) /\ Wrote(calls[d])
        /\ calls[c].formatted_post # calls[d].formatted_post
        /\ SharedEntry(session_state, calls[d].topic) = Some(calls[d].formatted_post)

====
